---- MODULE Spec2Model ----
(***************************************************************************)
(* graphql-config: the two records of src/src/lib.rs,                      *)
(* GraphQLConfiguration and GraphQLProjectConfiguration, with the          *)
(* Deserialize and Serialize implementations their derive attributes       *)
(* generate, run over serde_json::Value (serde_json::from_value and        *)
(* serde_json::to_value, as the tests of the crate do).                    *)
(***************************************************************************)
EXTENDS Integers, Sequences, FiniteSets, TLC

VARIABLES
    doc,      \* the serde_json::Value handed to from_value
    result,   \* what from_value returned for doc (Pending before the call)
    cfg,      \* a GraphQLConfiguration built through its public fields
    encoded,  \* what to_value returned for cfg (Pending before the call)
    pc,       \* "build" | "decoded" | "encoded" | "redecoded"
    edits     \* edits applied to the input so far

vars == <<doc, result, cfg, encoded, pc, edits>>

(***************************************************************************)
(* Result<T, E> and Option<T>                                              *)
(***************************************************************************)
Ok(x) == [ok |-> TRUE, value |-> x]

Err(e) == [ok |-> FALSE, err |-> e]

Pending == [pending |-> TRUE]

None == [some |-> FALSE]

Some(x) == [some |-> TRUE, v |-> x]

(***************************************************************************)
(* serde_json::Value.  An integer is kept as two limbs, hi * 2^20 + lo,    *)
(* so that a 64-bit value such as 1532367255884 stays exact.               *)
(***************************************************************************)
PosInt(hi, lo) == [k |-> "PosInt", hi |-> hi, lo |-> lo]

NegInt(hi, lo) == [k |-> "NegInt", hi |-> hi, lo |-> lo]

Float(m, e) == [k |-> "Float", m |-> m, e |-> e]

Null == [t |-> "Null"]

Bool(b) == [t |-> "Bool", b |-> b]

Number(n) == [t |-> "Number", n |-> n]

String(s) == [t |-> "String", s |-> s]

Array(a) == [t |-> "Array", a |-> a]

Object(o) == [t |-> "Object", o |-> o]

EmptyMap == [k \in {} |-> Null]

\* Every key the model uses, in the byte order of a BTreeMap<String, _>.
KeyOrder ==
    << "SchemaPath", "amazingLibrary", "amazing_library",
       "evenMoreAmazingLibrary", "excludes",
       "extensions", "includes", "lastUpdatedAt", "name", "nested",
       "projects", "root", "schemaPath", "schema_path" >>

\* The keys of a map in iteration order.
SortedKeys(S) == SelectSeq(KeyOrder, LAMBDA k : k \in S)

(***************************************************************************)
(* std::path::PathBuf: an OS string is either the bytes of a Unicode       *)
(* string or a byte sequence that is not valid UTF-8.                      *)
(***************************************************************************)
PathBufFrom(s) == [utf8 |-> TRUE, s |-> s]

PathBufRaw(id) == [utf8 |-> FALSE, raw |-> id]

\* Path::to_str
PathToStr(p) == IF p.utf8 THEN Some(p.s) ELSE None

(***************************************************************************)
(* serde::de::Error                                                        *)
(***************************************************************************)
InvalidType(unexp, exp) == [kind |-> "invalid_type", unexp |-> unexp, exp |-> exp]

InvalidLength(len, exp) == [kind |-> "invalid_length", len |-> len, exp |-> exp]

\* Value::unexpected
UnexpectedV(v) ==
    CASE v.t = "Null" -> "null"
      [] v.t = "Bool" -> "boolean"
      [] v.t = "Number" -> IF v.n.k = "Float" THEN "floating point" ELSE "integer"
      [] v.t = "String" -> "string"
      [] v.t = "Array" -> "sequence"
      [] v.t = "Object" -> "map"

(***************************************************************************)
(* serde's buffered Content, which a flattened field is decoded from.      *)
(***************************************************************************)
CUnit == [c |-> "Unit"]

CBool(b) == [c |-> "Bool", b |-> b]

CU64(hi, lo) == [c |-> "U64", hi |-> hi, lo |-> lo]

CI64(hi, lo) == [c |-> "I64", hi |-> hi, lo |-> lo]

CF64(m, e) == [c |-> "F64", m |-> m, e |-> e]

CString(s) == [c |-> "String", s |-> s]

CSeq(a) == [c |-> "Seq", a |-> a]

CMap(m) == [c |-> "Map", m |-> m]

\* Content::unexpected
UnexpectedC(c) ==
    CASE c.c = "Unit" -> "null"
      [] c.c = "Bool" -> "boolean"
      [] c.c \in {"U64", "I64"} -> "integer"
      [] c.c = "F64" -> "floating point"
      [] c.c = "String" -> "string"
      [] c.c = "Seq" -> "sequence"
      [] c.c = "Map" -> "map"

\* A faulty NumberToContent: an unsigned integer cut to its low 32 bits.
NumberToContent_Truncated(n) ==
    CASE n.k = "PosInt" -> CU64(n.hi % 4096, n.lo)
      [] n.k = "NegInt" -> CI64(n.hi, n.lo)
      [] n.k = "Float" -> CF64(n.m, n.e)

\* A number buffered: visit_u64, visit_i64 or visit_f64 of ContentVisitor.
NumberToContent(n) ==
    CASE n.k = "PosInt" -> CU64(n.hi, n.lo)
      [] n.k = "NegInt" -> CI64(n.hi, n.lo)
      [] n.k = "Float" -> CF64(n.m, n.e)

RECURSIVE ToContent(_)
\* Content::deserialize(value): Value::deserialize_any driving ContentVisitor.
ToContent(v) ==
    CASE v.t = "Null" -> CUnit
      [] v.t = "Bool" -> CBool(v.b)
      [] v.t = "Number" -> NumberToContent(v.n)
      [] v.t = "String" -> CString(v.s)
      [] v.t = "Array" -> CSeq([i \in 1..Len(v.a) |-> ToContent(v.a[i])])
      [] v.t = "Object" ->
            LET ks == SortedKeys(DOMAIN v.o)
            IN  CMap([i \in 1..Len(ks) |-> <<CString(ks[i]), ToContent(v.o[ks[i]])>>])

RECURSIVE FromContent(_)
\* Value::deserialize(ContentDeserializer): ValueVisitor over buffered
\* content (visit_unit, visit_u64, visit_i64, visit_f64, visit_seq, ...).
FromContent(c) ==
    CASE c.c = "Unit" -> Null
      [] c.c = "Bool" -> Bool(c.b)
      [] c.c = "U64" -> Number(PosInt(c.hi, c.lo))
      [] c.c = "I64" -> Number(NegInt(c.hi, c.lo))
      [] c.c = "F64" -> Number(Float(c.m, c.e))
      [] c.c = "String" -> String(c.s)
      [] c.c = "Seq" -> Array([i \in 1..Len(c.a) |-> FromContent(c.a[i])])
      [] c.c = "Map" ->
            Object([k \in {c.m[i][1].s : i \in 1..Len(c.m)} |->
                      LET i == CHOOSE j \in 1..Len(c.m) : c.m[j][1].s = k
                      IN  FromContent(c.m[i][2])])

RECURSIVE FromValue(_)
\* Value::deserialize(value): ValueVisitor over a Value.
FromValue(v) ==
    CASE v.t = "Null" -> Null
      [] v.t = "Bool" -> Bool(v.b)
      [] v.t = "Number" -> Number(v.n)
      [] v.t = "String" -> String(v.s)
      [] v.t = "Array" -> Array([i \in 1..Len(v.a) |-> FromValue(v.a[i])])
      [] v.t = "Object" -> Object([k \in DOMAIN v.o |-> FromValue(v.o[k])])

(***************************************************************************)
(* The field types of GraphQLProjectConfiguration, decoded from a Value    *)
(* (a project's body) and from buffered Content (the flattened root).      *)
(***************************************************************************)
\* The first failure of a sequence of results, or Ok of all the values.
Collect(rs) ==
    IF \E i \in 1..Len(rs) : ~rs[i].ok
    THEN LET i == CHOOSE j \in 1..Len(rs) :
                    ~rs[j].ok /\ \A h \in 1..(j - 1) : rs[h].ok
         IN  Err(rs[i].err)
    ELSE Ok([i \in 1..Len(rs) |-> rs[i].value])

\* String::deserialize(Value)
StringFromValue(v) ==
    IF v.t = "String" THEN Ok(v.s) ELSE Err(InvalidType(UnexpectedV(v), "a string"))

\* String::deserialize(ContentDeserializer)
StringFromContent(c) ==
    IF c.c = "String" THEN Ok(c.s) ELSE Err(InvalidType(UnexpectedC(c), "a string"))

\* pub name: Option<String>, from a Value: null is None.
NameFromValue(v) ==
    IF v.t = "Null" THEN Ok(None)
    ELSE LET r == StringFromValue(v) IN IF r.ok THEN Ok(Some(r.value)) ELSE r

\* A faulty NameFromContent: null is not taken for None.
NameFromContent_NullIsError(c) ==
    LET r == StringFromContent(c) IN IF r.ok THEN Ok(Some(r.value)) ELSE r

\* pub name: Option<String>, from Content: Content::Unit is None.
NameFromContent(c) ==
    IF c.c = "Unit" THEN Ok(None)
    ELSE LET r == StringFromContent(c) IN IF r.ok THEN Ok(Some(r.value)) ELSE r

\* pub schema_path: Option<PathBuf>, from a Value.
SchemaPathFromValue(v) ==
    IF v.t = "Null" THEN Ok(None)
    ELSE IF v.t = "String" THEN Ok(Some(PathBufFrom(v.s)))
    ELSE Err(InvalidType(UnexpectedV(v), "path string"))

\* pub schema_path: Option<PathBuf>, from Content.
SchemaPathFromContent(c) ==
    IF c.c = "Unit" THEN Ok(None)
    ELSE IF c.c = "String" THEN Ok(Some(PathBufFrom(c.s)))
    ELSE Err(InvalidType(UnexpectedC(c), "path string"))

\* pub includes / excludes: Option<Vec<String>>, from a Value.
PatternsFromValue(v) ==
    IF v.t = "Null" THEN Ok(None)
    ELSE IF v.t = "Array"
    THEN LET r == Collect([i \in 1..Len(v.a) |-> StringFromValue(v.a[i])])
         IN  IF r.ok THEN Ok(Some(r.value)) ELSE r
    ELSE Err(InvalidType(UnexpectedV(v), "a sequence"))

\* A faulty PatternsFromContent: an empty array is taken for None.
PatternsFromContent_EmptyIsNone(c) ==
    IF c.c = "Unit" \/ (c.c = "Seq" /\ Len(c.a) = 0) THEN Ok(None)
    ELSE IF c.c = "Seq"
    THEN LET r == Collect([i \in 1..Len(c.a) |-> StringFromContent(c.a[i])])
         IN  IF r.ok THEN Ok(Some(r.value)) ELSE r
    ELSE Err(InvalidType(UnexpectedC(c), "a sequence"))

\* A faulty PatternsFromContent: elements that are no strings are dropped.
PatternsFromContent_DropsNonStrings(c) ==
    IF c.c = "Unit" THEN Ok(None)
    ELSE IF c.c = "Seq"
    THEN LET strs == SelectSeq(c.a, LAMBDA e : e.c = "String")
         IN  Ok(Some([i \in 1..Len(strs) |-> strs[i].s]))
    ELSE Err(InvalidType(UnexpectedC(c), "a sequence"))

\* pub includes / excludes: Option<Vec<String>>, from Content.
PatternsFromContent(c) ==
    IF c.c = "Unit" THEN Ok(None)
    ELSE IF c.c = "Seq"
    THEN LET r == Collect([i \in 1..Len(c.a) |-> StringFromContent(c.a[i])])
         IN  IF r.ok THEN Ok(Some(r.value)) ELSE r
    ELSE Err(InvalidType(UnexpectedC(c), "a sequence"))

\* pub extensions: Option<BTreeMap<String, serde_json::Value>>, from a Value.
ExtensionsFromValue(v) ==
    IF v.t = "Null" THEN Ok(None)
    ELSE IF v.t = "Object"
    THEN Ok(Some([k \in DOMAIN v.o |-> FromValue(v.o[k])]))
    ELSE Err(InvalidType(UnexpectedV(v), "a map"))

\* pub extensions: Option<BTreeMap<String, serde_json::Value>>, from Content.
ExtensionsFromContent(c) ==
    IF c.c = "Unit" THEN Ok(None)
    ELSE IF c.c = "Map"
    THEN Ok(Some(FromContent(c).o))
    ELSE Err(InvalidType(UnexpectedC(c), "a map"))

(***************************************************************************)
(* GraphQLProjectConfiguration                                             *)
(***************************************************************************)
\* The fields of the struct, in declaration order.
RustFields == << "name", "schema_path", "includes", "excludes", "extensions" >>

\* A faulty CamelCase: the field's own name is the key.
CamelCase_Identity(f) == f

\* rename_all = "camelCase": the key a field is read from and written to.
CamelCase(f) == IF f = "schema_path" THEN "schemaPath" ELSE f

\* The keys of the struct, in field order.
FIELDS == [i \in 1..Len(RustFields) |-> CamelCase(RustFields[i])]

FieldSet == {FIELDS[i] : i \in 1..Len(FIELDS)}

GraphQLProjectConfiguration(n, s, i, e, x) ==
    [name |-> n, schema_path |-> s, includes |-> i, excludes |-> e, extensions |-> x]

\* The value of one field, by its key, from a Value.
FieldFromValue(k, v) ==
    CASE k = CamelCase("name") -> NameFromValue(v)
      [] k = CamelCase("schema_path") -> SchemaPathFromValue(v)
      [] k = CamelCase("includes") -> PatternsFromValue(v)
      [] k = CamelCase("excludes") -> PatternsFromValue(v)
      [] k = CamelCase("extensions") -> ExtensionsFromValue(v)

\* The value of one field, by its key, from Content.
FieldFromContent(k, c) ==
    CASE k = CamelCase("name") -> NameFromContent(c)
      [] k = CamelCase("schema_path") -> SchemaPathFromContent(c)
      [] k = CamelCase("includes") -> PatternsFromContent(c)
      [] k = CamelCase("excludes") -> PatternsFromContent(c)
      [] k = CamelCase("extensions") -> ExtensionsFromContent(c)

\* The end of the derived visit_map: a field no key set is None.
BuildProject(ks, vals) ==
    LET get(f) == IF \E i \in 1..Len(ks) : ks[i] = f
                  THEN vals[CHOOSE i \in 1..Len(ks) : ks[i] = f]
                  ELSE None
    IN  [f \in {RustFields[i] : i \in 1..Len(RustFields)} |-> get(CamelCase(f))]

\* The derived visit_map over a JSON object: the keys in map order, a key
\* that is no field skipped (IgnoredAny), the first failure returned.
ProjectVisitMap(o) ==
    LET ks == SelectSeq(SortedKeys(DOMAIN o), LAMBDA k : k \in FieldSet)
        r == Collect([i \in 1..Len(ks) |-> FieldFromValue(ks[i], o[ks[i]])])
    IN  IF r.ok THEN Ok(BuildProject(ks, r.value)) ELSE r

\* The derived visit_seq over a JSON array: the fields by position; an
\* array that ends early or has elements left over is an invalid length.
ProjectVisitSeq(a) ==
    LET r == Collect([i \in 1..Len(FIELDS) |->
                 IF i > Len(a)
                 THEN Err(InvalidLength(i - 1,
                          "struct GraphQLProjectConfiguration with 5 elements"))
                 ELSE FieldFromValue(FIELDS[i], a[i])])
    IN  IF ~r.ok THEN r
        ELSE IF Len(a) > Len(FIELDS)
        THEN Err(InvalidLength(Len(a), "fewer elements in array"))
        ELSE Ok(BuildProject(FIELDS, r.value))

\* GraphQLProjectConfiguration::deserialize(Value): deserialize_struct takes
\* an object or an array.
ProjectFromValue(v) ==
    CASE v.t = "Object" -> ProjectVisitMap(v.o)
      [] v.t = "Array" -> ProjectVisitSeq(v.a)
      [] OTHER -> Err(InvalidType(UnexpectedV(v),
                      "struct GraphQLProjectConfiguration"))

\* GraphQLProjectConfiguration::deserialize(FlatMapDeserializer(collect)):
\* FlatStructAccess yields the collected entries whose key is a field.
ProjectFromFlatMap(collect) ==
    LET es == SelectSeq(collect, LAMBDA e : e[1].s \in FieldSet)
        ks == [i \in 1..Len(es) |-> es[i][1].s]
        r == Collect([i \in 1..Len(es) |-> FieldFromContent(ks[i], es[i][2])])
    IN  IF r.ok THEN Ok(BuildProject(ks, r.value)) ELSE r

(***************************************************************************)
(* GraphQLConfiguration                                                    *)
(***************************************************************************)
GraphQLConfiguration(p, r) == [projects |-> p, root |-> r]

\* A faulty ProjectsFromValue: a project with no name is named after its key.
ProjectsFromValue_DefaultName(v) ==
    IF v.t = "Null" THEN Ok(None)
    ELSE IF v.t = "Object"
    THEN LET ks == SortedKeys(DOMAIN v.o)
             r == Collect([i \in 1..Len(ks) |-> ProjectFromValue(v.o[ks[i]])])
         IN  IF r.ok
             THEN Ok(Some([k \in DOMAIN v.o |->
                        LET p == r.value[CHOOSE i \in 1..Len(ks) : ks[i] = k]
                        IN  IF p.name.some THEN p ELSE [p EXCEPT !.name = Some(k)]]))
             ELSE r
    ELSE Err(InvalidType(UnexpectedV(v), "a map"))

\* pub projects: Option<BTreeMap<String, GraphQLProjectConfiguration>>:
\* null is None; the entries of an object in key order, the key kept as is.
ProjectsFromValue(v) ==
    IF v.t = "Null" THEN Ok(None)
    ELSE IF v.t = "Object"
    THEN LET ks == SortedKeys(DOMAIN v.o)
             r == Collect([i \in 1..Len(ks) |-> ProjectFromValue(v.o[ks[i]])])
         IN  IF r.ok
             THEN Ok(Some([k \in DOMAIN v.o |->
                        r.value[CHOOSE i \in 1..Len(ks) : ks[i] = k]]))
             ELSE r
    ELSE Err(InvalidType(UnexpectedV(v), "a map"))

\* The entries the flattening visit_map buffers: every key but projects.
CollectFlat(o) ==
    LET ks == SelectSeq(SortedKeys(DOMAIN o), LAMBDA k : k # "projects")
    IN  [i \in 1..Len(ks) |-> <<CString(ks[i]), ToContent(o[ks[i]])>>]

\* A faulty from_value: a project takes the fields it lacks from the root.
from_value_Inherits(v) ==
    IF v.t # "Object"
    THEN Err(InvalidType(UnexpectedV(v), "struct GraphQLConfiguration"))
    ELSE LET p == IF "projects" \in DOMAIN v.o
                  THEN ProjectsFromValue(v.o["projects"])
                  ELSE Ok(None)
             r == ProjectFromFlatMap(CollectFlat(v.o))
         IN  IF ~p.ok THEN p
             ELSE IF ~r.ok THEN r
             ELSE Ok(GraphQLConfiguration(
                     IF p.value.some
                     THEN Some([n \in DOMAIN p.value.v |->
                              [f \in DOMAIN r.value |->
                                  IF p.value.v[n][f].some THEN p.value.v[n][f]
                                  ELSE r.value[f]]])
                     ELSE None,
                     r.value))

\* A faulty from_value: projects that fail to decode are left out.
from_value_Lenient(v) ==
    IF v.t # "Object"
    THEN Err(InvalidType(UnexpectedV(v), "struct GraphQLConfiguration"))
    ELSE LET p == IF "projects" \in DOMAIN v.o
                  THEN ProjectsFromValue(v.o["projects"])
                  ELSE Ok(None)
             r == ProjectFromFlatMap(CollectFlat(v.o))
         IN  IF ~r.ok THEN r
             ELSE Ok(GraphQLConfiguration(IF p.ok THEN p.value ELSE None, r.value))

\* serde_json::from_value::<GraphQLConfiguration>(v): deserialize_map takes
\* an object only; projects is decoded as its key is met, the root from the
\* buffered entries after the last key.
from_value(v) ==
    IF v.t # "Object"
    THEN Err(InvalidType(UnexpectedV(v), "struct GraphQLConfiguration"))
    ELSE LET p == IF "projects" \in DOMAIN v.o
                  THEN ProjectsFromValue(v.o["projects"])
                  ELSE Ok(None)
             r == ProjectFromFlatMap(CollectFlat(v.o))
         IN  IF ~p.ok THEN p
             ELSE IF ~r.ok THEN r
             ELSE Ok(GraphQLConfiguration(p.value, r.value))

(***************************************************************************)
(* Serialize                                                               *)
(***************************************************************************)
RECURSIVE ValueToValue(_)
\* Value::serialize into serde_json::value::Serializer.
ValueToValue(v) ==
    CASE v.t = "Null" -> Null
      [] v.t = "Bool" -> Bool(v.b)
      [] v.t = "Number" -> Number(v.n)
      [] v.t = "String" -> String(v.s)
      [] v.t = "Array" -> Array([i \in 1..Len(v.a) |-> ValueToValue(v.a[i])])
      [] v.t = "Object" -> Object([k \in DOMAIN v.o |-> ValueToValue(v.o[k])])

\* Option<String>::serialize: serialize_none is null.
NameToValue(n) == IF n.some THEN Ok(String(n.v)) ELSE Ok(Null)

\* Option<PathBuf>::serialize: a path that is not UTF-8 is an error.
SchemaPathToValue(s) ==
    IF ~s.some THEN Ok(Null)
    ELSE LET str == PathToStr(s.v)
         IN  IF str.some THEN Ok(String(str.v))
             ELSE Err([kind |-> "custom",
                       msg |-> "path contains invalid UTF-8 characters"])

\* Option<Vec<String>>::serialize
PatternsToValue(ps) ==
    IF ps.some THEN Ok(Array([i \in 1..Len(ps.v) |-> String(ps.v[i])])) ELSE Ok(Null)

\* Option<BTreeMap<String, Value>>::serialize
ExtensionsToValue(x) ==
    IF x.some THEN Ok(Object([k \in DOMAIN x.v |-> ValueToValue(x.v[k])])) ELSE Ok(Null)

\* The derived serialize of GraphQLProjectConfiguration: one serialize_field
\* per field, in field order, each under its camelCase key.
ProjectFields(p) ==
    << NameToValue(p.name), SchemaPathToValue(p.schema_path),
       PatternsToValue(p.includes), PatternsToValue(p.excludes),
       ExtensionsToValue(p.extensions) >>

\* to_value of a GraphQLProjectConfiguration: an object of its fields.
ProjectToValue(p) ==
    LET r == Collect(ProjectFields(p))
    IN  IF r.ok
        THEN Ok(Object([k \in FieldSet |->
                   r.value[CHOOSE i \in 1..Len(FIELDS) : FIELDS[i] = k]]))
        ELSE r

\* Option<BTreeMap<String, GraphQLProjectConfiguration>>::serialize
ProjectsToValue(ps) ==
    IF ~ps.some THEN Ok(Null)
    ELSE LET ks == SortedKeys(DOMAIN ps.v)
             r == Collect([i \in 1..Len(ks) |-> ProjectToValue(ps.v[ks[i]])])
         IN  IF r.ok
             THEN Ok(Object([k \in DOMAIN ps.v |->
                        r.value[CHOOSE i \in 1..Len(ks) : ks[i] = k]]))
             ELSE r

\* serde_json::to_value(&GraphQLConfiguration): serialize_map, the entry
\* projects, then the fields of root through FlatMapSerializer.
to_value(c) ==
    LET p == ProjectsToValue(c.projects)
        r == ProjectToValue(c.root)
    IN  IF ~p.ok THEN p
        ELSE IF ~r.ok THEN r
        ELSE Ok(Object([k \in {"projects"} \cup DOMAIN r.value.o |->
                   IF k = "projects" THEN p.value ELSE r.value.o[k]]))

(***************************************************************************)
(* The inputs: documents as the crate's tests write them with json!, and   *)
(* records built through the public fields (tests/fields_are_public.rs).   *)
(***************************************************************************)
MaxEdits == 2

ProjectNames == {"amazingLibrary", "amazing_library"}

\* "lastUpdatedAt": 1532367255884u64
LastUpdatedAt == Number(PosInt(1461379, 309580))

SampleExtensions ==
    [lastUpdatedAt |-> LastUpdatedAt,
     nested |-> Object([name |-> Array(<< Null, Bool(TRUE), Number(NegInt(0, 1)),
                                          Number(Float(3, -1)), String("1") >>)])]

\* Key and value pairs a document may hold, well typed and not.
FieldEdits ==
    << <<"name", Null>>,
       <<"name", String("George")>>,
       <<"name", Number(PosInt(0, 1))>>,
       <<"schemaPath", Null>>,
       <<"schemaPath", String("")>>,
       <<"schemaPath", Bool(TRUE)>>,
       <<"includes", Null>>,
       <<"includes", Array(<<>>)>>,
       <<"includes", Array(<< String("./b/*.graphql"), String("./a/*.graphql") >>)>>,
       <<"includes", Array(<< String("./a/*.graphql"), Number(PosInt(0, 1)) >>)>>,
       <<"includes", String("./a/*.graphql")>>,
       <<"excludes", Array(<< String("[") >>)>>,
       <<"excludes", Array(<< Null >>)>>,
       <<"excludes", Object(EmptyMap)>>,
       <<"extensions", Null>>,
       <<"extensions", Object(EmptyMap)>>,
       <<"extensions", Object(SampleExtensions)>>,
       <<"extensions", Array(<<>>)>>,
       <<"schema_path", String("./schema.graphql")>>,
       <<"SchemaPath", Number(PosInt(0, 1))>>,
       <<"root", Object([name |-> Number(PosInt(0, 1))])>> >>

\* What a document may hold under projects.
ProjectsEdits == << Null, Object(EmptyMap), Array(<<>>), String("amazingLibrary") >>

\* What a document may hold as the body of one project.
BodyEdits ==
    << Object(EmptyMap),
       Object([name |-> String("amazingLibrary"), projects |-> Bool(TRUE)]),
       Array(<< Null, Null, Null, Null, Null >>),
       Array(<< String("George"), String("./schema.graphql"), Array(<<>>),
                Null, Object(SampleExtensions) >>),
       Array(<< Null, Null, Array(<< Bool(FALSE) >>), Null, Null >>),
       Array(<< Null, Null >>),
       Array(<< Null, Null, Null, Null, Null, Null >>),
       Number(Float(3, -1)) >>

\* The document of the crate's example.
ExampleDoc ==
    Object([schemaPath |-> String("./schema.graphql"),
            includes |-> Array(<< String("./graphql/*.graphql") >>),
            projects |-> Object([amazingLibrary |->
                Object([schemaPath |-> String("./amazingLibrary.schema.graphql")])])])

\* it_works_with_multiple_nested_project_configs_and_a_root_config
TwoProjectsDoc ==
    Object([schemaPath |-> String("./greatRootLibrary.schema.graphql"),
            projects |-> Object(
                [amazingLibrary |->
                    Object([schemaPath |-> String("./amazingLibrary.schema.graphql")]),
                 evenMoreAmazingLibrary |->
                    Object([schemaPath |->
                        String("./evenMoreAmazingLibrary.schema.graphql")])])])

InitDocs ==
    << Object(EmptyMap), ExampleDoc, TwoProjectsDoc, Null, Bool(FALSE), LastUpdatedAt,
       String("./schema.graphql"), Array(<< Null, Null, Null, Null, Null >>) >>

With(o, k, v) == [x \in DOMAIN o \cup {k} |-> IF x = k THEN v ELSE o[x]]

Without(o, k) == [x \in DOMAIN o \ {k} |-> o[x]]

EmptyProject == GraphQLProjectConfiguration(None, None, None, None, None)

EmptyConfig == GraphQLConfiguration(None, EmptyProject)

\* The expected value of the crate's example.
ExampleConfig ==
    GraphQLConfiguration(
        Some([amazingLibrary |->
            GraphQLProjectConfiguration(None,
                Some(PathBufFrom("./amazingLibrary.schema.graphql")), None, None, None)]),
        GraphQLProjectConfiguration(None, Some(PathBufFrom("./schema.graphql")),
            Some(<< "./graphql/*.graphql" >>), None, None))

InitConfigs == << EmptyConfig, ExampleConfig >>

\* Field and value pairs a record may be given.
ConfigEdits ==
    << <<"name", None>>,
       <<"name", Some("George")>>,
       <<"schema_path", None>>,
       <<"schema_path", Some(PathBufFrom(""))>>,
       <<"schema_path", Some(PathBufRaw(1))>>,
       <<"includes", Some(<<>>)>>,
       <<"includes", Some(<< "./b/*.graphql", "./a/*.graphql" >>)>>,
       <<"excludes", None>>,
       <<"excludes", Some(<< "[" >>)>>,
       <<"extensions", Some(EmptyMap)>>,
       <<"extensions", Some(SampleExtensions)>> >>

(***************************************************************************)
(* Decoding documents                                                      *)
(***************************************************************************)
InitDec ==
    /\ \E i \in 1..Len(InitDocs) : doc = InitDocs[i]
    /\ result = Pending
    /\ cfg = EmptyConfig
    /\ encoded = Pending
    /\ pc = "build"
    /\ edits = 0

CanEdit == pc = "build" /\ edits < MaxEdits

\* A key of the top-level object is set.
SetRootKey ==
    /\ CanEdit
    /\ doc.t = "Object"
    /\ \E i \in 1..Len(FieldEdits) :
          doc' = Object(With(doc.o, FieldEdits[i][1], FieldEdits[i][2]))
    /\ edits' = edits + 1
    /\ UNCHANGED <<result, cfg, encoded, pc>>

\* The key projects of the top-level object is set.
SetProjects ==
    /\ CanEdit
    /\ doc.t = "Object"
    /\ \E i \in 1..Len(ProjectsEdits) :
          doc' = Object(With(doc.o, "projects", ProjectsEdits[i]))
    /\ edits' = edits + 1
    /\ UNCHANGED <<result, cfg, encoded, pc>>

HasProjects(d) ==
    d.t = "Object" /\ "projects" \in DOMAIN d.o /\ d.o["projects"].t = "Object"

WithProject(d, n, body) ==
    Object(With(d.o, "projects",
        Object(With(IF HasProjects(d) THEN d.o["projects"].o ELSE EmptyMap, n, body))))

\* One entry of the projects object is set, the object made if need be.
SetProject ==
    /\ CanEdit
    /\ doc.t = "Object"
    /\ \E n \in ProjectNames, i \in 1..Len(BodyEdits) :
          doc' = WithProject(doc, n, BodyEdits[i])
    /\ edits' = edits + 1
    /\ UNCHANGED <<result, cfg, encoded, pc>>

\* A key of the body of one project is set.
SetProjectKey ==
    /\ CanEdit
    /\ HasProjects(doc)
    /\ \E n \in DOMAIN doc.o["projects"].o, i \in 1..Len(FieldEdits) :
          /\ doc.o["projects"].o[n].t = "Object"
          /\ doc' = WithProject(doc, n,
                Object(With(doc.o["projects"].o[n].o,
                            FieldEdits[i][1], FieldEdits[i][2])))
    /\ edits' = edits + 1
    /\ UNCHANGED <<result, cfg, encoded, pc>>

\* serde_json::from_value::<GraphQLConfiguration>(doc)
Decode ==
    /\ pc = "build"
    /\ result' = from_value(doc)
    /\ pc' = "decoded"
    /\ UNCHANGED <<doc, cfg, encoded, edits>>

NextDec == SetRootKey \/ SetProjects \/ SetProject \/ SetProjectKey \/ Decode

Spec == InitDec /\ [][NextDec]_vars

(***************************************************************************)
(* Re-encoding records                                                     *)
(***************************************************************************)
InitEnc ==
    /\ \E i \in 1..Len(InitConfigs) : cfg = InitConfigs[i]
    /\ encoded = Pending
    /\ doc = Null
    /\ result = Pending
    /\ pc = "build"
    /\ edits = 0

\* A field of root is assigned.
SetRootField ==
    /\ CanEdit
    /\ \E i \in 1..Len(ConfigEdits) :
          cfg' = [cfg EXCEPT !.root[ConfigEdits[i][1]] = ConfigEdits[i][2]]
    /\ edits' = edits + 1
    /\ UNCHANGED <<doc, result, encoded, pc>>

\* projects is assigned None or an empty map.
SetProjectsField ==
    /\ CanEdit
    /\ \E p \in {None, Some(EmptyMap)} : cfg' = [cfg EXCEPT !.projects = p]
    /\ edits' = edits + 1
    /\ UNCHANGED <<doc, result, encoded, pc>>

\* An empty project is inserted into the map, the map made if need be.
InsertProject ==
    /\ CanEdit
    /\ \E n \in ProjectNames :
          cfg' = [cfg EXCEPT !.projects =
                     Some(With(IF cfg.projects.some THEN cfg.projects.v ELSE EmptyMap,
                               n, EmptyProject))]
    /\ edits' = edits + 1
    /\ UNCHANGED <<doc, result, encoded, pc>>

\* A field of one project is assigned.
SetProjectField ==
    /\ CanEdit
    /\ cfg.projects.some
    /\ \E n \in DOMAIN cfg.projects.v, i \in 1..Len(ConfigEdits) :
          cfg' = [cfg EXCEPT !.projects.v[n][ConfigEdits[i][1]] = ConfigEdits[i][2]]
    /\ edits' = edits + 1
    /\ UNCHANGED <<doc, result, encoded, pc>>

\* serde_json::to_value(&cfg)
Encode ==
    /\ pc = "build"
    /\ encoded' = to_value(cfg)
    /\ pc' = "encoded"
    /\ UNCHANGED <<doc, result, cfg, edits>>

\* serde_json::from_value of what to_value returned.
Redecode ==
    /\ pc = "encoded"
    /\ encoded.ok
    /\ doc' = encoded.value
    /\ result' = from_value(encoded.value)
    /\ pc' = "redecoded"
    /\ UNCHANGED <<cfg, encoded, edits>>

NextEnc ==
    \/ SetRootField \/ SetProjectsField \/ InsertProject \/ SetProjectField
    \/ Encode \/ Redecode

SpecEnc == InitEnc /\ [][NextEnc]_vars

(***************************************************************************)
(* Reading a document and a decoded record by place: <<>> is the top-level *)
(* object, <<n>> the body of project n.                                    *)
(***************************************************************************)
Decoded == pc = "decoded"

Places(d) ==
    IF d.t # "Object" THEN {}
    ELSE {<<>>} \cup (IF HasProjects(d)
                      THEN {<<n>> : n \in DOMAIN d.o["projects"].o}
                      ELSE {})

BodyAt(d, at) == IF at = <<>> THEN d ELSE d.o["projects"].o[at[1]]

ObjectPlaces(d) == {at \in Places(d) : BodyAt(d, at).t = "Object"}

Position(key) == CHOOSE i \in 1..5 : << "name", "schemaPath", "includes",
                                         "excludes", "extensions" >>[i] = key

\* What the document gives for a key at a place: under the key in an
\* object body, at the field's position in an array body.
Raw(d, at, key) ==
    LET b == BodyAt(d, at)
    IN  CASE b.t = "Object" -> IF key \in DOMAIN b.o THEN Some(b.o[key]) ELSE None
          [] b.t = "Array" -> IF Position(key) <= Len(b.a)
                              THEN Some(b.a[Position(key)]) ELSE None
          [] OTHER -> None

Given(d, at, key) == Raw(d, at, key).some /\ Raw(d, at, key).v.t # "Null"

\* The document with a key of an object body set, or removed.
SetAt(d, at, key, v) ==
    IF at = <<>> THEN Object(With(d.o, key, v))
    ELSE WithProject(d, at[1], Object(With(BodyAt(d, at).o, key, v)))

RemoveAt(d, at, key) ==
    IF at = <<>> THEN Object(Without(d.o, key))
    ELSE WithProject(d, at[1], Object(Without(BodyAt(d, at).o, key)))

RecordAt(c, at) == IF at = <<>> THEN c.root ELSE c.projects.v[at[1]]

FieldOf(key) == IF key = "schemaPath" THEN "schema_path" ELSE key

FieldAt(c, at, key) == RecordAt(c, at)[FieldOf(key)]

FieldKeys == {"name", "schemaPath", "includes", "excludes", "extensions"}

\* A failure of the kind the decoders report for data of the wrong shape.
TypeMismatch(e) == e.kind \in {"invalid_type", "invalid_length"}

AllStrings(a) == \A i \in 1..Len(a) : a[i].t = "String"

\* A recognised field whose value has not the shape its type asks for.
WrongTyped(key, v) ==
    /\ v.t # "Null"
    /\ CASE key \in {"name", "schemaPath"} -> v.t # "String"
         [] key \in {"includes", "excludes"} -> v.t # "Array" \/ ~AllStrings(v.a)
         [] key = "extensions" -> v.t # "Object"
         [] key = "projects" -> v.t # "Object"

WrongField(d) ==
    \/ \E at \in ObjectPlaces(d), key \in FieldKeys :
          Raw(d, at, key).some /\ WrongTyped(key, Raw(d, at, key).v)
    \/ d.t = "Object" /\ "projects" \in DOMAIN d.o
          /\ WrongTyped("projects", d.o["projects"])

ProjectPlaces(d) == Places(d) \ {<<>>}

PathsAreUnicode(c) ==
    /\ c.root.schema_path.some => c.root.schema_path.v.utf8
    /\ c.projects.some =>
          \A n \in DOMAIN c.projects.v :
              c.projects.v[n].schema_path.some => c.projects.v[n].schema_path.v.utf8

(***************************************************************************)
(* C1.  Round trip.  For every GraphQLConfiguration whose schema paths,    *)
(* where present, are valid Unicode, to_value succeeds and from_value of   *)
(* what it returned is Ok of an equal record.                              *)
(***************************************************************************)
C1_RoundTrip ==
    /\ pc = "encoded" /\ PathsAreUnicode(cfg) => encoded.ok
    /\ pc = "redecoded" => PathsAreUnicode(cfg) /\ result = Ok(cfg)

\* C1 as stated: for every GraphQLConfiguration, with no condition on the
\* paths, the re-encoding is made and decodes to an equal record.
C1_RoundTripOfAnyValue ==
    /\ pc = "encoded" => encoded.ok
    /\ pc = "redecoded" => result = Ok(cfg)

C1_Witness ==
    /\ pc = "redecoded"
    /\ cfg.root.includes = Some(<<>>)
    /\ cfg.root.schema_path.some
    /\ cfg.projects.some
    /\ \E n \in DOMAIN cfg.projects.v : cfg.projects.v[n].extensions = Some(EmptyMap)

(***************************************************************************)
(* C2.  Flatten rule.  When a document decodes, root is what               *)
(* GraphQLProjectConfiguration decodes to from the top-level object        *)
(* without its projects key, projects has exactly the keys of the          *)
(* document's projects object, each entry is what its own body decodes to, *)
(* and a field is present at a place only if the document gives it there.  *)
(***************************************************************************)
C2_Flatten ==
    Decoded /\ result.ok =>
        LET c == result.value
            alone == ProjectFromValue(Object(Without(doc.o, "projects")))
        IN  /\ alone.ok /\ c.root = alone.value
            /\ IF HasProjects(doc)
               THEN /\ c.projects.some
                    /\ DOMAIN c.projects.v = DOMAIN doc.o["projects"].o
                    /\ \A n \in DOMAIN c.projects.v :
                          c.projects.v[n] = ProjectFromValue(doc.o["projects"].o[n]).value
               ELSE c.projects = None
            /\ \A at \in Places(doc), key \in FieldKeys :
                  FieldAt(c, at, key).some <=> Given(doc, at, key)

C2_Witness ==
    /\ Decoded /\ result.ok
    /\ result.value.root.schema_path.some
    /\ ~result.value.root.name.some
    /\ result.value.projects.some
    /\ Cardinality(DOMAIN result.value.projects.v) = 2
    /\ \E n, m \in DOMAIN result.value.projects.v :
          /\ result.value.projects.v[n].name.some
          /\ ~result.value.projects.v[m].name.some
          /\ result.value.projects.v[m].schema_path.some
          /\ ~result.value.projects.v[n].schema_path.some

KeysOfPresent(p) == {CamelCase(f) : f \in {g \in DOMAIN p : p[g].some}}

(***************************************************************************)
(* C3.  Omission on re-encoding.  The re-encoded top-level object has the  *)
(* key of a field of root exactly when the field is present, the key       *)
(* projects exactly when projects is present, never the key root, and each *)
(* project body has exactly the keys of its present fields.                *)
(***************************************************************************)
C3_OmitsAbsentFields ==
    pc = "encoded" /\ encoded.ok =>
        LET o == encoded.value.o
        IN  /\ DOMAIN o = KeysOfPresent(cfg.root)
                            \cup (IF cfg.projects.some THEN {"projects"} ELSE {})
            /\ "root" \notin DOMAIN o
            /\ cfg.projects.some =>
                  \A n \in DOMAIN cfg.projects.v :
                      DOMAIN o["projects"].o[n].o = KeysOfPresent(cfg.projects.v[n])

(***************************************************************************)
(* C4.  Elements of includes and excludes.  Where a document gives an      *)
(* array for includes or excludes, at the root or in a project: if an      *)
(* element is not a string the decode fails with a type mismatch; if all   *)
(* are strings and the decode succeeds, the field is present and holds     *)
(* those strings in that order, the empty array giving an empty sequence.  *)
(***************************************************************************)
C4_PatternElements ==
    Decoded =>
        \A at \in ObjectPlaces(doc), key \in {"includes", "excludes"} :
            LET r == Raw(doc, at, key)
            IN  r.some /\ r.v.t = "Array" =>
                    IF AllStrings(r.v.a)
                    THEN result.ok =>
                            FieldAt(result.value, at, key)
                                = Some([i \in 1..Len(r.v.a) |-> r.v.a[i].s])
                    ELSE ~result.ok /\ TypeMismatch(result.err)

C4_Witness ==
    /\ Decoded /\ ~result.ok
    /\ Raw(doc, <<>>, "includes") = Some(Array(<<>>))
    /\ \E at \in ObjectPlaces(doc) \ {<<>>} :
          /\ Raw(doc, at, "includes").some
          /\ Raw(doc, at, "includes").v.t = "Array"
          /\ ~AllStrings(Raw(doc, at, "includes").v.a)

IsComplete(c) ==
    /\ DOMAIN c = {"projects", "root"}
    /\ DOMAIN c.root = {RustFields[i] : i \in 1..Len(RustFields)}
    /\ c.projects.some =>
          \A n \in DOMAIN c.projects.v :
              DOMAIN c.projects.v[n] = {RustFields[i] : i \in 1..Len(RustFields)}

(***************************************************************************)
(* C5.  Fail fast.  A recognised field of the wrong type anywhere in the   *)
(* document, at the root or in one project's body, makes the decode fail;  *)
(* what from_value returns is either a failure and no record, or a record  *)
(* with every field of the root and of every project.                      *)
(***************************************************************************)
C5_FailFast ==
    Decoded =>
        /\ WrongField(doc) => ~result.ok
        /\ IF result.ok
           THEN DOMAIN result = {"ok", "value"} /\ IsComplete(result.value)
           ELSE DOMAIN result = {"ok", "err"}

C5_Witness ==
    /\ Decoded /\ ~result.ok
    /\ Given(doc, <<>>, "schemaPath") /\ ~WrongTyped("schemaPath", doc.o["schemaPath"])
    /\ Cardinality(ObjectPlaces(doc)) = 3
    /\ \E at \in ObjectPlaces(doc) \ {<<>>} :
          /\ \E key \in FieldKeys :
                Raw(doc, at, key).some /\ WrongTyped(key, Raw(doc, at, key).v)
          /\ \A other \in ObjectPlaces(doc) \ {at}, key \in FieldKeys :
                Raw(doc, other, key).some => ~WrongTyped(key, Raw(doc, other, key).v)

UnknownKeys == {"schema_path", "SchemaPath", "root"}

UnknownValues ==
    << Null, String("./schema.graphql"), Array(<< Bool(TRUE) >>),
       Object([name |-> Number(PosInt(0, 1))]) >>

(***************************************************************************)
(* C6.  Unknown keys.  Setting a key that is no recognised name, to any    *)
(* value, in the top-level object or in a project's body leaves what       *)
(* from_value returns, record or failure, as it was.                       *)
(***************************************************************************)
C6_UnknownKeysIgnored ==
    Decoded =>
        \A at \in ObjectPlaces(doc) :
            \A k \in UnknownKeys \cup (IF at = <<>> THEN {} ELSE {"projects"}) :
                \A i \in 1..Len(UnknownValues) :
                    from_value(SetAt(doc, at, k, UnknownValues[i])) = result

C6_Witness ==
    /\ Decoded /\ result.ok
    /\ "root" \in DOMAIN doc.o
    /\ \E at \in ObjectPlaces(doc) \ {<<>>} : Raw(doc, at, "SchemaPath").some
    /\ result = from_value(ExampleDoc)

(***************************************************************************)
(* C7.  Null is absent.  Where a document gives null for a recognised key, *)
(* at the root, in a project's body, or for projects itself, from_value    *)
(* returns what it returns for the document without that key, and on       *)
(* success the field is not present.                                       *)
(***************************************************************************)
C7_NullIsAbsent ==
    Decoded =>
        /\ \A at \in ObjectPlaces(doc), key \in FieldKeys :
              Raw(doc, at, key) = Some(Null) =>
                  /\ result = from_value(RemoveAt(doc, at, key))
                  /\ result.ok => FieldAt(result.value, at, key) = None
        /\ (doc.t = "Object" /\ "projects" \in DOMAIN doc.o
                /\ doc.o["projects"] = Null) =>
              /\ result = from_value(RemoveAt(doc, <<>>, "projects"))
              /\ result.ok => result.value.projects = None

C7_Witness ==
    /\ Decoded /\ result.ok
    /\ \E key \in FieldKeys : Raw(doc, <<>>, key) = Some(Null)
    /\ \E at \in ObjectPlaces(doc) \ {<<>>}, key \in FieldKeys :
          Raw(doc, at, key) = Some(Null)

(***************************************************************************)
(* C8.  Project names.  The keys of the decoded projects map are the keys  *)
(* of the document's projects object, unchanged; a project whose body has  *)
(* no name key has no name, and a project is named after its key only when *)
(* its body gives that very string as its name.                            *)
(***************************************************************************)
C8_ProjectNamesVerbatim ==
    Decoded /\ result.ok /\ HasProjects(doc) =>
        /\ result.value.projects.some
        /\ DOMAIN result.value.projects.v = DOMAIN doc.o["projects"].o
        /\ \A n \in DOMAIN doc.o["projects"].o :
              /\ (<<n>> \in ObjectPlaces(doc) /\ ~Raw(doc, <<n>>, "name").some)
                    => result.value.projects.v[n].name = None
              /\ result.value.projects.v[n].name = Some(n)
                    => Raw(doc, <<n>>, "name") = Some(String(n))

C8_Witness ==
    /\ Decoded /\ result.ok
    /\ result.value.projects.some
    /\ DOMAIN result.value.projects.v = {"amazingLibrary", "amazing_library"}
    /\ result.value.projects.v["amazing_library"].name = None
    /\ result.value.projects.v["amazingLibrary"].name = Some("amazingLibrary")

(***************************************************************************)
(* C9.  Extensions.  Where a document gives an object for extensions, a    *)
(* successful decode holds under every key the very value the document     *)
(* gives and no other key, and a failed decode fails the same with the     *)
(* object emptied; where it gives anything but an object or null, the      *)
(* decode fails.                                                           *)
(***************************************************************************)
C9_ExtensionsOpaque ==
    Decoded =>
        \A at \in ObjectPlaces(doc) :
            LET r == Raw(doc, at, "extensions")
            IN  /\ r.some /\ r.v.t = "Object" =>
                      IF result.ok
                      THEN FieldAt(result.value, at, "extensions") = Some(r.v.o)
                      ELSE from_value(SetAt(doc, at, "extensions", Object(EmptyMap)))
                              = result
                /\ r.some /\ r.v.t \notin {"Object", "Null"} => ~result.ok

C9_Witness ==
    /\ Decoded /\ result.ok
    /\ result.value.root.extensions = Some(SampleExtensions)
    /\ \E at \in ObjectPlaces(doc) \ {<<>>} :
          FieldAt(result.value, at, "extensions") = Some(SampleExtensions)

(***************************************************************************)
(* C10.  The failures.  Decoding fails exactly when the top-level value is *)
(* no object, or a recognised field that is given and not null has not its *)
(* expected shape, or the body of a project is not an object.              *)
(***************************************************************************)
C10_FailureTaxonomy ==
    Decoded =>
        (~result.ok <=>
            \/ doc.t # "Object"
            \/ WrongField(doc)
            \/ \E at \in ProjectPlaces(doc) : BodyAt(doc, at).t # "Object")

====
